---- MODULE Spec2Model ----
(***************************************************************************)
(* Crypto Portfolio Tracker (src/crypto_portfolio.py).                     *)
(*                                                                         *)
(* State machine of the CryptoPortfolio object driven by the menu loop of  *)
(* main(): the in-memory portfolio, the portfolio.json file, the wall      *)
(* clock, and a record of what the last menu action did (its inputs, the   *)
(* messages it printed, the table it displayed, the exception it let       *)
(* escape).  Decimal amounts and prices are small naturals.                *)
(***************************************************************************)
EXTENDS Integers, Sequences, FiniteSets, TLC

VARIABLES portfolio, file, clock, pc, last

vars == <<portfolio, file, clock, pc, last>>

(* ------------------------------- bounds -------------------------------- *)

\* add_holding is offered while the transaction log is shorter than this.
MaxTx == 2
\* The clock counts its ticks, 0..MaxClock.
MaxClock == 1

(* ------------------------- inputs of the model ------------------------- *)

\* Coins the search service knows: {id, name, symbol} as in its JSON.
BTC == [id |-> "bitcoin", name |-> "Bitcoin", symbol |-> "btc"]
ETH == [id |-> "ethereum", name |-> "Ethereum", symbol |-> "eth"]

\* What the user types for amount and buy price when it parses as a number.
Amounts == {2}
BuyPrices == {1}

\* A line typed by the user: a number, or text int()/float() rejects.
BadInput == [ok |-> FALSE, val |-> 0]
NumInput(n) == [ok |-> TRUE, val |-> n]

(* ----------------------------- dictionaries ---------------------------- *)

\* A price dict: the keys present and their values (0 where absent).
EmptyDict == [keys |-> {}, usd |-> 0, usd_24h_change |-> 0]
Quote(p, c) == [keys |-> {"usd", "usd_24h_change", "usd_market_cap"},
                usd |-> p, usd_24h_change |-> c]

\* dict.get(key, default)
Get(d, key, default) == IF key \in d.keys THEN d[key] ELSE default

\* The outcome of one GET /simple/price: a network or HTTP error, or a JSON
\* body, which maps the coin id to a quote or does not hold it.
PriceError == [status |-> "error", has_coin |-> FALSE, quote |-> EmptyDict]
PriceOk(q) == [status |-> "ok", has_coin |-> TRUE, quote |-> q]
PriceResponses == {PriceError, PriceOk(Quote(3, 1))}

\* The outcome of one GET /search: an error, or the coins of the body.
SearchError == [status |-> "error", coins |-> <<>>]
SearchOk(cs) == [status |-> "ok", coins |-> cs]
SearchResponses == {SearchError, SearchOk(<<>>), SearchOk(<<BTC, ETH>>),
                    SearchOk(<<ETH, BTC, ETH, BTC, ETH, BTC>>)}

(* ------------------------------ strings -------------------------------- *)

\* str.upper()
upper(s) == CASE s = "btc" -> "BTC"
              [] s = "eth" -> "ETH"
              [] OTHER -> s

\* datetime.isoformat(): the text of a clock reading.
isoformat(t) == ToString(t)

(* ------------------------------- JSON ---------------------------------- *)

\* A JSON number is written as its decimal text and parsed back from it.
json_number(n) == ToString(n)
parse_number(s) == CHOOSE n \in 0..9 : ToString(n) = s

json_dump_holding(h) ==
    << <<"coin_id", h.coin_id>>, <<"coin_name", h.coin_name>>,
       <<"symbol", h.symbol>>, <<"amount", json_number(h.amount)>>,
       <<"buy_price", json_number(h.buy_price)>>,
       <<"date_added", h.date_added>> >>

json_load_holding(o) ==
    [coin_id |-> o[1][2], coin_name |-> o[2][2], symbol |-> o[3][2],
     amount |-> parse_number(o[4][2]), buy_price |-> parse_number(o[5][2]),
     date_added |-> o[6][2]]

json_dump_transaction(t) ==
    << <<"type", t.type>>, <<"coin_id", t.coin_id>>,
       <<"amount", json_number(t.amount)>>, <<"price", json_number(t.price)>>,
       <<"date", t.date>> >>

json_load_transaction(o) ==
    [type |-> o[1][2], coin_id |-> o[2][2], amount |-> parse_number(o[3][2]),
     price |-> parse_number(o[4][2]), date |-> o[5][2]]

\* json_dump with the transactions member written empty.
json_dump_holdings_only(p) ==
    << <<"holdings",
         [i \in 1..Len(p.holdings) |-> json_dump_holding(p.holdings[i])]>>,
       <<"transactions", <<>> >> >>

\* json.dump(self.portfolio, f): the document, member by member.
json_dump(p) ==
    << <<"holdings",
         [i \in 1..Len(p.holdings) |-> json_dump_holding(p.holdings[i])]>>,
       <<"transactions",
         [i \in 1..Len(p.transactions) |-> json_dump_transaction(p.transactions[i])]>> >>

\* json.load(f) of a complete document.
json_load(text) ==
    [holdings |-> [i \in 1..Len(text[1][2]) |-> json_load_holding(text[1][2][i])],
     transactions |-> [i \in 1..Len(text[2][2]) |-> json_load_transaction(text[2][2][i])]]

\* A text json.load accepts: both members are there.
json_valid(text) == Len(text) = 2

(* ------------------------------ the store ------------------------------ *)

EmptyPortfolio == [holdings |-> <<>>, transactions |-> <<>>]

AbsentFile == [exists |-> FALSE, text |-> <<>>]
\* What open(filename, 'w') leaves when the write after it fails.
TruncatedFile == [exists |-> TRUE, text |-> <<>>]

\* How an access to the file can go: it works, open() fails, or (for a
\* write) the write fails after open() has truncated the file.
ReadOutcomes == {"ok", "open_failed"}
WriteOutcomes == {"ok", "open_failed", "write_failed"}

\* load_portfolio: the portfolio read, or raised when open or json.load fails.
load_portfolio(f, outcome) ==
    IF ~f.exists
    THEN [portfolio |-> EmptyPortfolio, raised |-> FALSE, failed |-> FALSE]
    ELSE IF outcome = "ok" /\ json_valid(f.text)
    THEN [portfolio |-> json_load(f.text), raised |-> FALSE, failed |-> FALSE]
    ELSE [portfolio |-> EmptyPortfolio, raised |-> TRUE, failed |-> TRUE]

\* save_portfolio: the file afterwards, and whether the exception escaped.
save_portfolio(p, f, outcome) ==
    CASE outcome = "ok" ->
             [file |-> [exists |-> TRUE, text |-> json_dump(p)], raised |-> FALSE]
      [] outcome = "open_failed" -> [file |-> f, raised |-> TRUE]
      [] OTHER -> [file |-> TruncatedFile, raised |-> TRUE]

(* ------------------------- price and coin lookup ----------------------- *)

\* get_price: response.json().get(coin_id, {}), or {} when anything raised.
get_price(resp) ==
    IF resp.status = "error" THEN EmptyDict
    ELSE IF resp.has_coin THEN resp.quote ELSE EmptyDict

\* s[:n]
Take(s, n) == SubSeq(s, 1, IF Len(s) < n THEN Len(s) ELSE n)

\* search_coin: response.json().get('coins', [])[:5], or [] when it raised.
search_coin(resp) ==
    IF resp.status = "error" THEN <<>> ELSE Take(resp.coins, 5)

(* --------------------------- holding manager --------------------------- *)

\* add_holding with the transaction's price taken from the amount.
add_holding_wrong_price(p, coin_id, coin_name, symbol, amount, buy_price, now1, now2) ==
    LET holding == [coin_id |-> coin_id, coin_name |-> coin_name,
                    symbol |-> upper(symbol), amount |-> amount,
                    buy_price |-> buy_price, date_added |-> isoformat(now1)]
        transaction == [type |-> "buy", coin_id |-> coin_id, amount |-> amount,
                        price |-> amount, date |-> isoformat(now2)]
    IN [holdings |-> Append(p.holdings, holding),
        transactions |-> Append(p.transactions, transaction)]

\* add_holding up to the save: the holding and the transaction appended,
\* each stamped with its own datetime.now() reading.
add_holding(p, coin_id, coin_name, symbol, amount, buy_price, now1, now2) ==
    LET holding == [coin_id |-> coin_id, coin_name |-> coin_name,
                    symbol |-> upper(symbol), amount |-> amount,
                    buy_price |-> buy_price, date_added |-> isoformat(now1)]
        transaction == [type |-> "buy", coin_id |-> coin_id, amount |-> amount,
                        price |-> buy_price, date |-> isoformat(now2)]
    IN [holdings |-> Append(p.holdings, holding),
        transactions |-> Append(p.transactions, transaction)]

\* list.pop() without the index: the last element goes.
pop_last(s, index) == SubSeq(s, 1, Len(s) - 1)

\* list.pop(index) for 0 <= index < len(list): the list afterwards.
pop(s, index) ==
    [j \in 1..(Len(s) - 1) |-> IF j <= index THEN s[j] ELSE s[j + 1]]

\* The guard of remove_holding.
valid_index(p, index) == 0 <= index /\ index < Len(p.holdings)

\* remove_holding that clamps an index out of range to the last holding.
remove_holding_clamped(p, index) ==
    IF valid_index(p, index)
    THEN [holdings |-> pop(p.holdings, index), transactions |-> p.transactions]
    ELSE IF p.holdings = <<>> THEN p
    ELSE [holdings |-> SubSeq(p.holdings, 1, Len(p.holdings) - 1),
          transactions |-> p.transactions]

\* remove_holding that also drops the newest transaction.
remove_holding_and_transaction(p, index) ==
    IF valid_index(p, index)
    THEN [holdings |-> pop(p.holdings, index),
          transactions |-> SubSeq(p.transactions, 1, Len(p.transactions) - 1)]
    ELSE p

\* remove_holding up to the save; the portfolio as it was when the index
\* is refused.
remove_holding(p, index) ==
    IF valid_index(p, index)
    THEN [holdings |-> pop(p.holdings, index), transactions |-> p.transactions]
    ELSE p

(* --------------------------- valuation engine -------------------------- *)

EmptyStats == [total_value |-> 0, total_invested |-> 0, total_profit_loss |-> 0,
               total_profit_loss_pct |-> 0, holdings |-> <<>>]

\* (profit_loss / invested * 100) if invested > 0 else 0, rounded down to
\* a whole percent.
pct(profit_loss, invested) ==
    IF invested > 0 THEN (profit_loss * 100) \div invested ELSE 0

\* The loop body without the skip: an unpriced holding gets a row at price 0.
valuation_step_zero_valued(acc, holding, resp) ==
    LET price_data == get_price(resp)
        current_price == Get(price_data, "usd", 0)
        change_24h == Get(price_data, "usd_24h_change", 0)
        current_value == holding.amount * current_price
        invested == holding.amount * holding.buy_price
        profit_loss == current_value - invested
        row == [symbol |-> holding.symbol, coin_name |-> holding.coin_name,
                amount |-> holding.amount, buy_price |-> holding.buy_price,
                current_price |-> current_price, current_value |-> current_value,
                invested |-> invested, profit_loss |-> profit_loss,
                profit_loss_pct |-> pct(profit_loss, invested),
                change_24h |-> change_24h]
    IN [acc EXCEPT !.total_value = @ + current_value,
                   !.total_invested = @ + invested,
                   !.holdings = Append(@, row)]

\* The loop body with the invested total taken before the skip.
valuation_step_counts_skipped(acc, holding, resp) ==
    LET price_data == get_price(resp)
        current_price == Get(price_data, "usd", 0)
        change_24h == Get(price_data, "usd_24h_change", 0)
        current_value == holding.amount * current_price
        invested == holding.amount * holding.buy_price
        profit_loss == current_value - invested
        row == [symbol |-> holding.symbol, coin_name |-> holding.coin_name,
                amount |-> holding.amount, buy_price |-> holding.buy_price,
                current_price |-> current_price, current_value |-> current_value,
                invested |-> invested, profit_loss |-> profit_loss,
                profit_loss_pct |-> pct(profit_loss, invested),
                change_24h |-> change_24h]
    IN IF price_data.keys = {}
       THEN [acc EXCEPT !.total_invested = @ + invested]
       ELSE [acc EXCEPT !.total_value = @ + current_value,
                        !.total_invested = @ + invested,
                        !.holdings = Append(@, row)]

\* The body of the for loop of calculate_portfolio_value for one holding.
valuation_step(acc, holding, resp) ==
    LET price_data == get_price(resp)
        current_price == Get(price_data, "usd", 0)
        change_24h == Get(price_data, "usd_24h_change", 0)
        current_value == holding.amount * current_price
        invested == holding.amount * holding.buy_price
        profit_loss == current_value - invested
        row == [symbol |-> holding.symbol, coin_name |-> holding.coin_name,
                amount |-> holding.amount, buy_price |-> holding.buy_price,
                current_price |-> current_price, current_value |-> current_value,
                invested |-> invested, profit_loss |-> profit_loss,
                profit_loss_pct |-> pct(profit_loss, invested),
                change_24h |-> change_24h]
    IN IF price_data.keys = {}
       THEN acc
       ELSE [acc EXCEPT !.total_value = @ + current_value,
                        !.total_invested = @ + invested,
                        !.holdings = Append(@, row)]

RECURSIVE valuation_loop(_, _, _, _)
valuation_loop(acc, holdings, resps, i) ==
    IF i > Len(holdings) THEN acc
    ELSE valuation_loop(valuation_step(acc, holdings[i], resps[i]),
                        holdings, resps, i + 1)

\* calculate_portfolio_value, resps[i] being the answer to the i-th lookup.
calculate_portfolio_value(p, resps) ==
    LET acc == valuation_loop(EmptyStats, p.holdings, resps, 1)
        total_profit_loss == acc.total_value - acc.total_invested
    IN [acc EXCEPT !.total_profit_loss = total_profit_loss,
                   !.total_profit_loss_pct = pct(total_profit_loss, acc.total_invested)]

\* display_portfolio: whether the table was printed, and the rows it shows
\* numbered from 1.
display_portfolio(p, resps) ==
    IF p.holdings = <<>>
    THEN [shown |-> FALSE, stats |-> EmptyStats]
    ELSE [shown |-> TRUE, stats |-> calculate_portfolio_value(p, resps)]

\* The lookups a display of p makes, one per holding.
Lookups(p) == [1..Len(p.holdings) -> PriceResponses]

\* The messages get_price prints during a valuation.
price_messages(resps) ==
    IF \E i \in DOMAIN resps : resps[i].status = "error"
    THEN {"error_fetching_price"} ELSE {}

\* Some lookup of a valuation failed or found no quote.
price_failure(resps) ==
    \E i \in DOMAIN resps : get_price(resps[i]).keys = {}

(* ------------------------------ menu loop ------------------------------ *)

\* What the last menu action did.  called: the methods it ran; messages:
\* what it printed; raised: an exception left the action (and main);
\* lookup_failure: a price lookup or a coin search failed during it;
\* store_failure: a read or a write of portfolio.json failed during it;
\* index: the argument of remove_holding; removed: the holding popped;
\* responses, shown, stats: the lookups made for the table, whether the
\* table was printed, and the valuation it shows.
NoLast == [op |-> "none", called |-> {}, messages |-> {}, raised |-> FALSE,
           lookup_failure |-> FALSE, store_failure |-> FALSE, index |-> 0,
           removed |-> <<>>,
           responses |-> <<>>, shown |-> FALSE, stats |-> EmptyStats]

\* What the user can type at the prompts of the menu.
SelectionInputs == {BadInput} \cup {NumInput(n) : n \in {0, 1, 2, 6}}
AmountInputs == {BadInput} \cup {NumInput(n) : n \in Amounts}
BuyPriceInputs == {BadInput} \cup {NumInput(n) : n \in BuyPrices}
IndexInputs(p) == {BadInput} \cup {NumInput(n) : n \in 0..(Len(p.holdings) + 1)}

\* The second datetime.now() of a call whose first one read t: the same
\* reading, or the next one when the clock ticked in between.
NextReadings(t) == {u \in {t, t + 1} : u <= MaxClock}

\* CryptoPortfolio() in main, no portfolio.json on disk yet.
Init ==
    /\ file = AbsentFile
    /\ portfolio = load_portfolio(AbsentFile, "ok").portfolio
    /\ clock = 0
    /\ pc = "menu"
    /\ last = [NoLast EXCEPT !.op = "load", !.called = {"load_portfolio"}]

\* The part of last a display of the portfolio fills in.
Displayed(l, resps) ==
    LET d == display_portfolio(portfolio, resps)
    IN IF d.shown
       THEN [l EXCEPT !.called = @ \cup {"calculate_portfolio_value"},
                      !.messages = @ \cup price_messages(resps),
                      !.lookup_failure = price_failure(resps),
                      !.responses = resps, !.shown = TRUE, !.stats = d.stats]
       ELSE [l EXCEPT !.messages = @ \cup {"portfolio_empty"}]

\* choice == '1'
ViewPortfolio ==
    /\ pc = "menu"
    /\ \E resps \in Lookups(portfolio) :
          last' = Displayed([NoLast EXCEPT !.op = "view"], resps)
    /\ UNCHANGED <<portfolio, file, clock, pc>>

\* choice == '2'
AddHolding ==
    /\ pc = "menu"
    /\ Len(portfolio.transactions) < MaxTx
    /\ \E sresp \in SearchResponses :
          LET results == search_coin(sresp)
              l0 == [NoLast EXCEPT !.op = "add", !.called = {"search_coin"},
                                   !.lookup_failure = (sresp.status = "error")]
          IN IF results = <<>>
             THEN /\ last' = [l0 EXCEPT !.messages =
                                 (IF sresp.status = "error" THEN {"error_searching"} ELSE {})
                                 \cup {"no_coins_found"}]
                  /\ UNCHANGED <<portfolio, file, clock, pc>>
             ELSE \E sel \in SelectionInputs :
                  IF ~sel.ok
                  THEN /\ last' = [l0 EXCEPT !.messages = {"invalid_input"}]
                       /\ UNCHANGED <<portfolio, file, clock, pc>>
                  ELSE IF ~(0 <= sel.val - 1 /\ sel.val - 1 < Len(results))
                  THEN /\ last' = [l0 EXCEPT !.messages = {"invalid_selection"}]
                       /\ UNCHANGED <<portfolio, file, clock, pc>>
                  ELSE \E amount \in AmountInputs, buy_price \in BuyPriceInputs :
                       IF ~amount.ok \/ ~buy_price.ok
                       THEN /\ last' = [l0 EXCEPT !.messages = {"invalid_input"}]
                            /\ UNCHANGED <<portfolio, file, clock, pc>>
                       ELSE \E now2 \in NextReadings(clock), outcome \in WriteOutcomes :
                            LET selected == results[sel.val]
                                p == add_holding(portfolio, selected.id, selected.name,
                                                 selected.symbol, amount.val,
                                                 buy_price.val, clock, now2)
                                saved == save_portfolio(p, file, outcome)
                            IN /\ portfolio' = p
                               /\ file' = saved.file
                               /\ clock' = now2
                               /\ pc' = IF saved.raised THEN "crashed" ELSE "menu"
                               /\ last' = [l0 EXCEPT
                                     !.called = @ \cup {"add_holding", "save_portfolio"},
                                     !.messages = IF saved.raised THEN {} ELSE {"added"},
                                     !.raised = saved.raised,
                                     !.store_failure = saved.raised]

\* choice == '3'
RemoveHolding ==
    /\ pc = "menu"
    /\ \E resps \in Lookups(portfolio), inp \in IndexInputs(portfolio) :
          LET l0 == Displayed([NoLast EXCEPT !.op = "remove"], resps)
              index == inp.val - 1
          IN IF ~inp.ok
             THEN /\ last' = [l0 EXCEPT !.messages = @ \cup {"invalid_input"}]
                  /\ UNCHANGED <<portfolio, file, clock, pc>>
             ELSE IF ~valid_index(portfolio, index)
             THEN /\ portfolio' = remove_holding(portfolio, index)
                  /\ last' = [l0 EXCEPT !.called = @ \cup {"remove_holding"},
                                        !.index = index,
                                        !.messages = @ \cup {"invalid_index"}]
                  /\ UNCHANGED <<file, clock, pc>>
             ELSE \E outcome \in WriteOutcomes :
                  LET p == remove_holding(portfolio, index)
                      saved == save_portfolio(p, file, outcome)
                  IN /\ portfolio' = p
                     /\ file' = saved.file
                     /\ pc' = IF saved.raised THEN "crashed" ELSE "menu"
                     /\ last' = [l0 EXCEPT
                           !.called = @ \cup {"remove_holding", "save_portfolio"},
                           !.index = index,
                           !.removed = <<portfolio.holdings[index + 1]>>,
                           !.messages = @ \cup (IF saved.raised THEN {} ELSE {"removed"}),
                           !.raised = saved.raised,
                           !.store_failure = saved.raised]
                     /\ UNCHANGED clock

\* choice == '4'
SearchCoin ==
    /\ pc = "menu"
    /\ \E sresp \in SearchResponses :
          LET results == search_coin(sresp)
          IN last' = [NoLast EXCEPT
                 !.op = "search", !.called = {"search_coin"},
                 !.lookup_failure = (sresp.status = "error"),
                 !.messages = (IF sresp.status = "error" THEN {"error_searching"} ELSE {})
                              \cup (IF results = <<>> THEN {"no_results_found"}
                                    ELSE {"search_results"})]
    /\ UNCHANGED <<portfolio, file, clock, pc>>

\* choice == '5'
Exit ==
    /\ pc = "menu"
    /\ pc' = "exited"
    /\ last' = [NoLast EXCEPT !.op = "exit", !.messages = {"goodbye"}]
    /\ UNCHANGED <<portfolio, file, clock>>

\* The program is started again after it ended or died: CryptoPortfolio()
\* reads the file; an exception of load_portfolio ends the new process.
Restart ==
    /\ pc \in {"exited", "crashed"}
    /\ \E outcome \in ReadOutcomes :
          LET loaded == load_portfolio(file, outcome)
          IN /\ portfolio' = loaded.portfolio
             /\ pc' = IF loaded.raised THEN "crashed" ELSE "menu"
             /\ last' = [NoLast EXCEPT !.op = "load", !.called = {"load_portfolio"},
                                       !.raised = loaded.raised,
                                       !.store_failure = loaded.failed]
    /\ UNCHANGED <<file, clock>>

Next ==
    \/ ViewPortfolio
    \/ AddHolding
    \/ RemoveHolding
    \/ SearchCoin
    \/ Exit
    \/ Restart

Spec == Init /\ [][Next]_vars

(* ------------------------------ properties ----------------------------- *)

\* s is a prefix of t.
IsPrefix(s, t) == Len(s) <= Len(t) /\ SubSeq(t, 1, Len(s)) = s

\* s[:i] + s[i+1:]
WithoutIndex(s, i) == SubSeq(s, 1, i) \o SubSeq(s, i + 2, Len(s))

\* C1: remove_holding(i) with 0 <= i < len(holdings) leaves holdings equal to
\* holdings[:i] + holdings[i+1:] and leaves transactions unchanged.
C1_RemoveIsPositionalDelete ==
    [][("remove_holding" \in last'.called
          /\ 0 <= last'.index /\ last'.index < Len(portfolio.holdings))
        => /\ portfolio'.holdings = WithoutIndex(portfolio.holdings, last'.index)
           /\ portfolio'.transactions = portfolio.transactions]_vars

\* The first of several holdings has been removed.
C1_Witness ==
    /\ last.op = "remove" /\ last.removed # <<>> /\ last.index = 0
    /\ Len(portfolio.holdings) >= 1

\* C2: remove_holding with an index outside 0 <= index < len(holdings) (a
\* negative one, len(holdings), ...) reports the invalid index, raises
\* nothing, and leaves holdings, transactions and the file as they were.
C2_OutOfRangeIsRejected ==
    [][("remove_holding" \in last'.called
          /\ ~(0 <= last'.index /\ last'.index < Len(portfolio.holdings)))
        => /\ "invalid_index" \in last'.messages
           /\ "removed" \notin last'.messages
           /\ ~last'.raised
           /\ portfolio' = portfolio
           /\ file' = file]_vars

\* remove_holding has refused index = len(holdings) of a non-empty portfolio.
C2_Witness ==
    /\ last.op = "remove" /\ "remove_holding" \in last.called
    /\ portfolio.holdings # <<>>
    /\ last.index = Len(portfolio.holdings)
    /\ "invalid_index" \in last.messages

\* C3: every add_holding appends exactly one Holding and exactly one
\* Transaction (earlier entries unchanged); the transaction is a buy with the
\* coin_id, amount and price of the new holding.
C3_AddAppendsHoldingAndTransaction ==
    [][("add_holding" \in last'.called)
        => LET hs == portfolio'.holdings
               ts == portfolio'.transactions
               h == hs[Len(hs)]
               t == ts[Len(ts)]
           IN /\ Len(hs) = Len(portfolio.holdings) + 1
              /\ Len(ts) = Len(portfolio.transactions) + 1
              /\ SubSeq(hs, 1, Len(hs) - 1) = portfolio.holdings
              /\ SubSeq(ts, 1, Len(ts) - 1) = portfolio.transactions
              /\ t.type = "buy"
              /\ t.coin_id = h.coin_id
              /\ t.amount = h.amount
              /\ t.price = h.buy_price]_vars

\* A holding has been added to a portfolio that already held one.
C3_Witness ==
    /\ last.op = "add" /\ "added" \in last.messages
    /\ Len(portfolio.holdings) >= 2

\* C4: after add_holding the new holding's date_added and the new
\* transaction's date are the same timestamp.
C4_SameTimestamp ==
    ("add_holding" \in last.called)
        => portfolio.holdings[Len(portfolio.holdings)].date_added
             = portfolio.transactions[Len(portfolio.transactions)].date

\* C5: across add, remove, view and search the transactions before a step
\* are a prefix of those after it, and only add_holding extends them.
C5_TransactionsAppendOnly ==
    [][(last'.op \in {"add", "remove", "view", "search"})
        => /\ IsPrefix(portfolio.transactions, portfolio'.transactions)
           /\ (portfolio'.transactions # portfolio.transactions
                 => "add_holding" \in last'.called)]_vars

\* A holding has been removed and its transaction is still in the log.
C5_Witness ==
    /\ last.op = "remove" /\ last.removed # <<>>
    /\ Len(portfolio.transactions) > Len(portfolio.holdings)

\* The lookups of a valuation that returned a quote.
Priced(resps) ==
    {i \in DOMAIN resps : resps[i].status = "ok" /\ resps[i].has_coin
                            /\ resps[i].quote.keys # {}}

\* The j-th smallest element of the set of indices S.
NthOf(S, j) == CHOOSE i \in S : Cardinality({m \in S : m < i}) = j - 1

\* The row shows the holding.
RowShows(row, h) ==
    /\ row.symbol = h.symbol /\ row.coin_name = h.coin_name
    /\ row.amount = h.amount /\ row.buy_price = h.buy_price

\* C6: calculate_portfolio_value yields one row per holding whose lookup
\* returned a quote and none for the others, in the order of the holdings,
\* same-coin holdings kept apart; so rows <= holdings, with equality iff
\* every lookup returned a quote.
C6_OneRowPerPricedHolding ==
    [][last'.shown
        => LET hs == portfolio.holdings
               rows == last'.stats.holdings
               S == Priced(last'.responses)
           IN /\ Len(rows) = Cardinality(S)
              /\ \A j \in 1..Len(rows) :
                    /\ RowShows(rows[j], hs[NthOf(S, j)])
                    /\ rows[j].current_price
                         = Get(last'.responses[NthOf(S, j)].quote, "usd", 0)
              /\ Len(rows) <= Len(hs)
              /\ (Len(rows) = Len(hs) <=> S = 1..Len(hs))]_vars

\* Two holdings of one coin were valued, the first lookup failed, and the
\* only row is the second holding's.
C6_Witness ==
    /\ last.op = "view" /\ last.shown
    /\ Len(portfolio.holdings) = 2
    /\ portfolio.holdings[1].coin_id = portfolio.holdings[2].coin_id
    /\ Priced(last.responses) = {2}
    /\ Len(last.stats.holdings) = 1

RECURSIVE SumCurrentValue(_)
SumCurrentValue(rows) ==
    IF rows = <<>> THEN 0 ELSE rows[1].current_value + SumCurrentValue(Tail(rows))

RECURSIVE SumInvested(_)
SumInvested(rows) ==
    IF rows = <<>> THEN 0 ELSE rows[1].invested + SumInvested(Tail(rows))

\* C7: total_value is the sum of current_value and total_invested the sum of
\* invested over exactly the rows produced.
C7_TotalsSumTheRows ==
    last.shown
        => /\ last.stats.total_value = SumCurrentValue(last.stats.holdings)
           /\ last.stats.total_invested = SumInvested(last.stats.holdings)

\* A valuation of two holdings produced a row for one and skipped the other.
C7_Witness ==
    /\ last.shown
    /\ Len(last.responses) = 2
    /\ Len(last.stats.holdings) = 1
    /\ last.stats.total_invested > 0

\* C8: a failure of a collaborator during an operation raises nothing and
\* leaves the in-memory portfolio and the file as they were.
C8_FailuresAreSafeNoOps ==
    [][/\ last'.lookup_failure => ~last'.raised
       /\ (last'.lookup_failure /\ "remove_holding" \notin last'.called)
             => (portfolio' = portfolio /\ file' = file)
       /\ last'.store_failure
             => (~last'.raised /\ portfolio' = portfolio /\ file' = file)]_vars

\* C9: while the program runs, the file holds the in-memory portfolio: it is
\* absent and the portfolio empty, or loading it yields the portfolio; and
\* loading what save writes yields the portfolio again.
C9_StoreMatchesMemory ==
    pc = "menu"
        => /\ load_portfolio(file, "ok") =
                [portfolio |-> portfolio, raised |-> FALSE, failed |-> FALSE]
           /\ load_portfolio(save_portfolio(portfolio, file, "ok").file, "ok").portfolio
                = portfolio

\* The program was started again and loaded a portfolio of one holding and
\* two transactions.
C9_Witness ==
    /\ pc = "menu" /\ last.op = "load" /\ file.exists
    /\ Len(portfolio.holdings) = 1
    /\ Len(portfolio.transactions) = 2

\* C10: when the user enters the number k of a row of the table just shown,
\* the holding removed is the one row k shows.
C10_RemovesTheRowShown ==
    (/\ last.op = "remove" /\ "remove_holding" \in last.called /\ last.shown
     /\ 1 <= last.index + 1 /\ last.index + 1 <= Len(last.stats.holdings))
        => /\ last.removed # <<>>
           /\ RowShows(last.stats.holdings[last.index + 1], last.removed[1])
====
